---- MODULE Spec2Model ----
(***************************************************************************)
(* Razor (src/razor.py): FASTA ingestion, alphabet validation, scan-window *)
(* truncation, sequential / worker-pool annotation and result assembly.    *)
(*                                                                         *)
(* A sequence is a tuple of one-character strings.  A raw record is        *)
(*   [Accession, hasSeq, Sequence]                                         *)
(* where hasSeq = FALSE is a block without a line break (pandas' split     *)
(* leaves its Sequence cell None).                                         *)
(***************************************************************************)
EXTENDS Integers, Sequences, FiniteSets, TLC

VARIABLES
    pc,         \* position of the script / of the harness of a pure function
    argv,       \* command line: [m_int, m, ncores]
    max_scan,   \* args.max_scan after check_max_scan
    ncores,     \* args.ncores
    pool,       \* [init, nb_workers]: what pandarallel.initialize was given
    nfiles,     \* number of *.fa files found by glob
    fidx,       \* 1-based position of the for loop over files
    fstat,      \* per file: "pending", "failed", "written"
    raw,        \* records of the file being processed, as read
    df,         \* the table returned by fasta_reader
    printed,    \* dropped-count messages printed for the current file
    work,       \* per chunk: [lo, hi, res] (slice of df and results so far)
    finished,   \* chunks in the order their workers completed
    Analysis_,  \* the column df['Analysis_'] once gathered
    calls,      \* per raw index: the (seq, max_scan) pairs razor_predict got
    out,        \* rows written by to_csv for the current file
    err,        \* exception that ended the run, "none" otherwise
    s_in,       \* harness of a pure function: the sequence argument
    s_scan,     \* harness: the max_scan argument
    s_oc,       \* harness: what the detector's stages do
    s_res       \* harness: the value returned

vars == <<pc, argv, max_scan, ncores, pool, nfiles, fidx, fstat, raw, df,
          printed, work, finished, Analysis_, calls, out, err,
          s_in, s_scan, s_oc, s_res>>

pipeVars == <<argv, max_scan, ncores, pool, nfiles, fidx, fstat, raw, df,
              printed, work, finished, Analysis_, calls, out, err>>

harnessVars == <<s_in, s_scan, s_oc, s_res>>

-----------------------------------------------------------------------------
(* Bounds of the model *)

MaxRecs == 3        \* records per file in the pipeline
MaxFiles == 2       \* files of one run
MaxCores == 2       \* largest worker count tried
MaxParseRecs == 2   \* records per file when the parser is checked alone
MaxLen == 2         \* length of the exhaustively enumerated short strings

(* Program constants *)

DefaultMaxScan == 80    \* check_seq(seq, max_scan=80)
WindowExtra == 15       \* [: max_scan + 15]
MinScan == 16           \* if m < 16: raise
NFields == 12           \* arity of the tuple razor_predict returns

-----------------------------------------------------------------------------
(* Strings *)

Min(a, b) == IF a < b THEN a ELSE b

Take(s, n) == SubSeq(s, 1, Min(Len(s), n))

\* n copies of the residue 'A'
Pad(n) == [i \in 1..n |-> "A"]

\* str.upper() on the characters the model uses
Upper(c) ==
    CASE c = "a" -> "A"
      [] c = "c" -> "C"
      [] c = "u" -> "U"
      [] c = "x" -> "X"
      [] c = "n" -> "N"
      [] c = "o" -> "O"
      [] c = "e" -> "E"
      [] OTHER -> c

UpperSeq(s) == [i \in 1..Len(s) |-> Upper(s[i])]

\* str.replace("U", "C"): every occurrence
ReplaceU(s) == [i \in 1..Len(s) |-> IF s[i] = "U" THEN "C" ELSE s[i]]

NotLineBreak(c) == c # "\n"

\* Series.replace('\n', '', regex=True): every line break removed
RemoveNL(s) == SelectSeq(s, NotLineBreak)

\* the character class of valid_aa
valid_aa ==
    {"R", "K", "N", "D", "Q", "E", "H", "P", "Y", "W", "S", "T", "G", "A",
     "M", "C", "F", "L", "V", "I"}

\* re.match("^[RKNDQEHPYWSTGAMCFLVI]*$", s): '$' also matches just before a
\* line break that ends the string
ReMatch(s) ==
    \/ \A i \in 1..Len(s) : s[i] \in valid_aa
    \/ /\ Len(s) >= 1
       /\ s[Len(s)] = "\n"
       /\ \A i \in 1..(Len(s) - 1) : s[i] \in valid_aa

\* check_seq without the slice: the whole string is matched
check_seq_whole(seq, m) ==
    IF ReMatch(ReplaceU(UpperSeq(seq))) THEN TRUE ELSE FALSE

check_seq(seq, m) ==
    LET s == ReplaceU(Take(UpperSeq(seq), m + WindowExtra))
    IN  IF ReMatch(s) THEN TRUE ELSE FALSE

-----------------------------------------------------------------------------
(* fasta_reader *)

\* str(None), the cell of a block that has no line break after astype(str)
NoneStr == <<"N", "o", "n", "e">>

\* the literal 'NONE' of the filter on line 59
NONE == <<"N", "O", "N", "E">>

\* Series.replace('U', 'C') without regex=True: a cell is replaced only when
\* the whole cell equals 'U'
SeriesReplaceU(s) == IF s = <<"U">> THEN <<"C">> ELSE s

\* lines 52-53: the stored Sequence cell of one record
StoredSequence(rec, m) ==
    LET cell == IF rec.hasSeq THEN RemoveNL(rec.Sequence) ELSE NoneStr
    IN  Take(SeriesReplaceU(UpperSeq(cell)), m + WindowExtra)

\* read_csv raises on an empty file; when no block has a line break, split
\* yields one column and the two-column assignment raises
ParseRaises(file) ==
    \/ Len(file) = 0
    \/ \A i \in 1..Len(file) : ~file[i].hasSeq

\* the frame after line 53, one row per block, index = position in the file
Frame(file, m) ==
    [i \in 1..Len(file) |->
        [index |-> i,
         Accession |-> file[i].Accession,
         Sequence |-> StoredSequence(file[i], m)]]

\* lines 57-60: check_seq is called without max_scan, so with its default
KeepRow(r) ==
    /\ check_seq(r.Sequence, DefaultMaxScan)
    /\ r.Sequence # <<>>
    /\ r.Sequence # NONE

\* the message built from the rows kept instead of the rows removed
DropReport_kept(total_seq, remained_seq) ==
    IF total_seq # remained_seq THEN <<remained_seq>> ELSE <<>>

\* lines 62-64
DropReport(total_seq, remained_seq) ==
    IF total_seq # remained_seq THEN <<total_seq - remained_seq>> ELSE <<>>

fasta_reader(file, m) ==
    IF ParseRaises(file)
    THEN [raised |-> TRUE, df |-> <<>>, printed |-> <<>>]
    ELSE LET final_df == SelectSeq(Frame(file, m), KeepRow)
         IN  [raised |-> FALSE,
              df |-> final_df,
              printed |-> DropReport(Len(file), Len(final_df))]

-----------------------------------------------------------------------------
(* check_max_scan *)

\* a is [m_int, m]: whether int(m) succeeds, and its value
check_max_scan(a) ==
    IF ~a.m_int THEN [ok |-> FALSE, m |-> 0]
    ELSE IF a.m < MinScan THEN [ok |-> FALSE, m |-> 0]
    ELSE [ok |-> TRUE, m |-> a.m]

-----------------------------------------------------------------------------
(* razor_predict over the detector object *)

\* an attribute no stage has set
Unset == [by |-> "init", seq |-> <<>>, m |-> 0]

\* the value a stage computes from the object's sequence and window
Val(by, obj) == [by |-> by, seq |-> obj.seq, m |-> obj.max_scan]

\* detector.RAZOR(seq=seq, max_scan=max_scan)
RAZOR(seq, m) ==
    [seq |-> seq, max_scan |-> m,
     y_scores |-> Unset, preds |-> Unset, c_scores |-> Unset,
     cleavage_sites |-> Unset, final_cleavage |-> <<>>,
     final_score_sp |-> Unset,
     fungi_scores |-> Unset, fungi_preds |-> Unset,
     final_score_fungi |-> Unset,
     toxin_scores |-> Unset, toxin_preds |-> Unset,
     final_score_toxin |-> Unset]

\* newObj.predict() when it returns
DetPredict(obj, oc) ==
    [obj EXCEPT !.y_scores = Val("predict", obj),
                !.preds = Val("predict", obj),
                !.c_scores = Val("predict", obj),
                !.cleavage_sites = Val("predict", obj),
                !.final_cleavage = oc.cleav,
                !.final_score_sp = Val("predict", obj)]

\* newObj.fungi() when it returns
DetFungi(obj) ==
    [obj EXCEPT !.fungi_scores = Val("fungi", obj),
                !.fungi_preds = Val("fungi", obj),
                !.final_score_fungi = Val("fungi", obj)]

\* newObj.toxin() when it returns
DetToxin(obj) ==
    [obj EXCEPT !.toxin_scores = Val("toxin", obj),
                !.toxin_preds = Val("toxin", obj),
                !.final_score_toxin = Val("toxin", obj)]

\* lines 92-95: final_cleavage.tolist()[0], 0 on any exception
Cleav(obj) ==
    IF Len(obj.final_cleavage) = 0 THEN 0 ELSE obj.final_cleavage[1]

\* lines 97-109: the tuple returned
Bundle(obj) ==
    <<obj.y_scores, obj.preds, obj.c_scores, obj.cleavage_sites, Cleav(obj),
      obj.final_score_sp, obj.fungi_scores, obj.fungi_preds,
      obj.final_score_fungi, obj.toxin_scores, obj.toxin_preds,
      obj.final_score_toxin>>

\* a bare except: every exception of the optional stages is swallowed
Suppressed_any(e) == e # "ok"

\* the except clause of line 90
Suppressed(e) == e = "TypeError"

\* oc is [predict, fungi, toxin, cleav]: each stage returns ("ok") or raises
\* the named exception.  The result carries the exception that left
\* razor_predict ("none" when it returned), the stages entered, in order,
\* and the tuple returned.
razor_predict(seq, m, oc) ==
    LET o0 == RAZOR(seq, m)
        o1 == DetPredict(o0, oc)
        o2 == DetFungi(o1)
        o3 == DetToxin(o2)
        Raise(e, st) == [exc |-> e, stages |-> st, bundle |-> <<>>]
        Return(o, st) == [exc |-> "none", stages |-> st, bundle |-> Bundle(o)]
    IN  IF oc.predict # "ok" THEN Raise(oc.predict, <<"predict">>)
        ELSE IF oc.fungi # "ok" THEN
            IF Suppressed(oc.fungi)
            THEN Return(o1, <<"predict", "fungi">>)
            ELSE Raise(oc.fungi, <<"predict", "fungi">>)
        ELSE IF oc.toxin # "ok" THEN
            IF Suppressed(oc.toxin)
            THEN Return(o2, <<"predict", "fungi", "toxin">>)
            ELSE Raise(oc.toxin, <<"predict", "fungi", "toxin">>)
        ELSE Return(o3, <<"predict", "fungi", "toxin">>)

-----------------------------------------------------------------------------
(* pandas / pandarallel pieces used by main *)

\* the cell of a missing label after an index-aligned assignment
NaN == <<>>

\* pandarallel's chunk(nb_item, nb_chunks): contiguous slices, in order, the
\* first nb_item % nb_chunks of them one longer; one item per slice when
\* there are no more items than workers
chunk(nb_item, nb_chunks) ==
    IF nb_item <= nb_chunks
    THEN [c \in 1..nb_item |-> [lo |-> c, hi |-> c, res |-> <<>>]]
    ELSE LET q == nb_item \div nb_chunks
             r == nb_item % nb_chunks
         IN  [c \in 1..nb_chunks |->
                [lo |-> (c - 1) * q + Min(c - 1, r) + 1,
                 hi |-> c * q + Min(c, r),
                 res |-> <<>>]]

ChunkDone(w) == Len(w.res) = w.hi - w.lo + 1

RECURSIVE Concat(_)
\* the results of the chunks, concatenated in chunk order
Concat(ws) ==
    IF ws = <<>> THEN <<>> ELSE Head(ws).res \o Concat(Tail(ws))

\* the value a labelled series holds for a label, NaN when it has none
Lookup(series, label) ==
    IF \E j \in 1..Len(series) : series[j].index = label
    THEN series[CHOOSE j \in 1..Len(series) : series[j].index = label].val
    ELSE NaN

\* df['Analysis_'] = series: assignment aligned on df's index
AssignAligned(table, series) ==
    [i \in 1..Len(table) |-> Lookup(series, table[i].index)]

\* the expanded frame built without index=df.index: a fresh RangeIndex
Expanded_RangeIndex(table, column) ==
    [i \in 1..Len(table) |-> [index |-> i, val |-> column[i]]]

\* pandas.DataFrame(df.Analysis_.tolist(), index=df.index)
Expanded(table, column) ==
    [i \in 1..Len(table) |-> [index |-> table[i].index, val |-> column[i]]]

\* the arguments of the lambda on lines 146 and 148
CallArgs(x, m) == <<x, m>>

\* lines 150-155: the rows handed to to_csv
OutputRows(table, column) ==
    [i \in 1..Len(table) |->
        [index |-> table[i].index,
         Accession |-> table[i].Accession,
         Sequence |-> table[i].Sequence,
         fields |-> Lookup(Expanded(table, column), table[i].index)]]

-----------------------------------------------------------------------------
(* Inputs *)

ScanArgs == {MinScan - 1, MinScan}

CoreArgs == 0..MaxCores

Argvs ==
    {[m_int |-> FALSE, m |-> 0, ncores |-> n] : n \in CoreArgs}
    \cup {[m_int |-> TRUE, m |-> m, ncores |-> n] :
            m \in ScanArgs, n \in CoreArgs}

\* files of at most n records drawn from recs; the identifier of a record is
\* its position in the file
Files(recs, n) ==
    LET bare == UNION {[1..k -> recs] : k \in 0..n}
    IN  {[i \in 1..Len(f) |->
            [Accession |-> i, hasSeq |-> f[i].hasSeq,
             Sequence |-> f[i].Sequence]] : f \in bare}

WithSeq(seqs) == {[hasSeq |-> TRUE, Sequence |-> s] : s \in seqs}

NoSeq == [hasSeq |-> FALSE, Sequence |-> <<>>]

PipeSeqs == {<<"A">>, <<"C", "U">>, <<"X">>}

PipeFiles == Files(WithSeq(PipeSeqs), MaxRecs)

AllOk == [predict |-> "ok", fungi |-> "ok", toxin |-> "ok", cleav |-> <<1>>]

PipeOutcomes == {AllOk, [AllOk EXCEPT !.predict = "ValueError"]}

NoErr == [at |-> "none", exc |-> "none"]

-----------------------------------------------------------------------------
(* The script: lines 158-168, and main, lines 141-155 *)

FileReset ==
    /\ raw = <<>> /\ df = <<>> /\ printed = <<>> /\ work = <<>>
    /\ finished = <<>> /\ Analysis_ = <<>> /\ calls = <<>> /\ out = <<>>

HarnessIdle ==
    /\ s_in = <<>> /\ s_scan = 0 /\ s_oc = AllOk /\ s_res = <<>>

Init ==
    /\ pc = "get_args"
    /\ argv \in Argvs
    /\ max_scan = 0 /\ ncores = 0
    /\ pool = [init |-> FALSE, nb_workers |-> 0]
    /\ nfiles = 0 /\ fidx = 0 /\ fstat = <<>>
    /\ FileReset
    /\ err = NoErr
    /\ HarnessIdle

Crash(at, exc) ==
    /\ pc' = "crashed"
    /\ err' = [at |-> at, exc |-> exc]
    /\ fstat' = [fstat EXCEPT ![fidx] = "failed"]

\* get_args: argparse applies check_max_scan to -m and int to -n
get_args ==
    /\ pc = "get_args"
    /\ LET r == check_max_scan(argv)
       IN  IF r.ok
           THEN /\ max_scan' = r.m
                /\ ncores' = argv.ncores
                /\ pc' = "initialize"
                /\ err' = err
           ELSE /\ pc' = "rejected"
                /\ err' = [at |-> "get_args", exc |-> "ArgumentTypeError"]
                /\ UNCHANGED <<max_scan, ncores>>
    /\ UNCHANGED <<argv, pool, nfiles, fidx, fstat, raw, df, printed, work,
                   finished, Analysis_, calls, out>>
    /\ UNCHANGED harnessVars

\* lines 164-166: pandarallel.initialize, then the sorted glob
initialize ==
    /\ pc = "initialize"
    /\ pool' = [init |-> TRUE, nb_workers |-> ncores]
    /\ \E n \in 0..MaxFiles :
        /\ nfiles' = n
        /\ fstat' = [f \in 1..n |-> "pending"]
    /\ fidx' = 1
    /\ pc' = "loop"
    /\ UNCHANGED <<argv, max_scan, ncores, raw, df, printed, work, finished,
                   Analysis_, calls, out, err>>
    /\ UNCHANGED harnessVars

\* line 143: main reads and parses the next file
main_fasta_reader ==
    /\ pc = "loop"
    /\ fidx <= nfiles
    /\ \E file \in PipeFiles :
        LET r == fasta_reader(file, max_scan)
        IN  /\ raw' = file
            /\ df' = r.df
            /\ printed' = r.printed
            /\ calls' = [i \in 1..Len(file) |-> <<>>]
            /\ work' = IF ncores = 1
                       THEN <<[lo |-> 1, hi |-> Len(r.df), res |-> <<>>]>>
                       ELSE <<>>
            /\ IF r.raised
               THEN Crash("fasta_reader", "ArgumentTypeError")
               ELSE /\ pc' = IF ncores = 1 THEN "progress_apply"
                                           ELSE "parallel_apply"
                    /\ UNCHANGED <<err, fstat>>
    /\ finished' = <<>> /\ Analysis_' = <<>> /\ out' = <<>>
    /\ UNCHANGED <<argv, max_scan, ncores, pool, nfiles, fidx>>
    /\ UNCHANGED harnessVars

\* one invocation of the lambda on the next row of chunk c
ApplyOne(c, oc) ==
    LET row == df[work[c].lo + Len(work[c].res)]
        a == CallArgs(row.Sequence, max_scan)
        r == razor_predict(a[1], a[2], oc)
    IN  /\ calls' = [calls EXCEPT ![row.index] = Append(@, a)]
        /\ IF r.exc # "none"
           THEN /\ Crash("razor_predict", r.exc)
                /\ UNCHANGED <<work, finished>>
           ELSE LET w == [work[c] EXCEPT
                            !.res = Append(@, [index |-> row.index,
                                               val |-> r.bundle])]
                IN  /\ work' = [work EXCEPT ![c] = w]
                    /\ finished' = IF ChunkDone(w) THEN Append(finished, c)
                                                   ELSE finished
                    /\ UNCHANGED <<pc, err, fstat>>

\* line 146: Series.progress_apply, row by row in order
progress_apply ==
    /\ pc = "progress_apply"
    /\ ~ChunkDone(work[1])
    /\ \E oc \in PipeOutcomes : ApplyOne(1, oc)
    /\ UNCHANGED <<argv, max_scan, ncores, pool, nfiles, fidx, raw, df,
                   printed, Analysis_, out>>
    /\ UNCHANGED harnessVars

\* line 146: the assignment of the applied series
progress_apply_assign ==
    /\ pc = "progress_apply"
    /\ ChunkDone(work[1])
    /\ Analysis_' = AssignAligned(df, Concat(work))
    /\ pc' = "assemble"
    /\ UNCHANGED <<argv, max_scan, ncores, pool, nfiles, fidx, fstat, raw,
                   df, printed, work, finished, calls, out, err>>
    /\ UNCHANGED harnessVars

\* line 148: parallel_apply splits the series over the workers; chunking
\* for fewer than one worker, and a pool of no chunks, raise
parallel_apply_dispatch ==
    /\ pc = "parallel_apply"
    /\ IF ncores < 1 \/ Len(df) = 0
       THEN /\ Crash("parallel_apply", "ValueError")
            /\ work' = work
       ELSE /\ work' = chunk(Len(df), ncores)
            /\ pc' = "workers"
            /\ UNCHANGED <<err, fstat>>
    /\ UNCHANGED <<argv, max_scan, ncores, pool, nfiles, fidx, raw, df,
                   printed, finished, Analysis_, calls, out>>
    /\ UNCHANGED harnessVars

\* line 148: a worker applies the lambda to the next row of its chunk
worker_apply ==
    /\ pc = "workers"
    /\ \E c \in 1..Len(work) :
        /\ ~ChunkDone(work[c])
        /\ \E oc \in PipeOutcomes : ApplyOne(c, oc)
    /\ UNCHANGED <<argv, max_scan, ncores, pool, nfiles, fidx, raw, df,
                   printed, Analysis_, out>>
    /\ UNCHANGED harnessVars

\* line 148: all workers returned; the results are concatenated and assigned
parallel_apply_assign ==
    /\ pc = "workers"
    /\ \A c \in 1..Len(work) : ChunkDone(work[c])
    /\ Analysis_' = AssignAligned(df, Concat(work))
    /\ pc' = "assemble"
    /\ UNCHANGED <<argv, max_scan, ncores, pool, nfiles, fidx, fstat, raw,
                   df, printed, work, finished, calls, out, err>>
    /\ UNCHANGED harnessVars

\* lines 150-155: the twelve columns are joined on and the table written
main_write ==
    /\ pc = "assemble"
    /\ out' = OutputRows(df, Analysis_)
    /\ fstat' = [fstat EXCEPT ![fidx] = "written"]
    /\ fidx' = fidx + 1
    /\ pc' = "loop"
    /\ UNCHANGED <<argv, max_scan, ncores, pool, nfiles, raw, df, printed,
                   work, finished, Analysis_, calls, err>>
    /\ UNCHANGED harnessVars

\* line 154 on a table without rows: the expanded frame has no columns and
\* pandas versions that compare its width with the twelve keys raise
main_write_empty_raises ==
    /\ pc = "assemble"
    /\ Len(df) = 0
    /\ Crash("main", "ValueError")
    /\ UNCHANGED <<argv, max_scan, ncores, pool, nfiles, fidx, raw, df,
                   printed, work, finished, Analysis_, calls, out>>
    /\ UNCHANGED harnessVars

\* line 167: the loop is exhausted
exit ==
    /\ pc = "loop"
    /\ fidx > nfiles
    /\ pc' = "exit"
    /\ UNCHANGED pipeVars
    /\ UNCHANGED harnessVars

Next ==
    \/ get_args
    \/ initialize
    \/ main_fasta_reader
    \/ progress_apply
    \/ progress_apply_assign
    \/ parallel_apply_dispatch
    \/ worker_apply
    \/ parallel_apply_assign
    \/ main_write
    \/ main_write_empty_raises
    \/ exit

Spec == Init /\ [][Next]_vars

-----------------------------------------------------------------------------
(* check_seq on its own *)

PipeIdle ==
    /\ argv = [m_int |-> TRUE, m |-> DefaultMaxScan, ncores |-> 1]
    /\ ncores = 0
    /\ pool = [init |-> FALSE, nb_workers |-> 0]
    /\ nfiles = 0 /\ fidx = 0 /\ fstat = <<>>
    /\ err = NoErr

CheckChars == {"A", "U", "X", "a", "u", "\n"}

CheckScans == {MinScan, DefaultMaxScan}

Example20 ==
    <<"A", "C", "D", "E", "F", "G", "H", "I", "K", "L", "M", "N", "P", "Q",
      "R", "S", "T", "V", "W", "Y">>

ExampleBad == <<"A", "C", "D", "X", "Y", "Z">>

\* every string of at most MaxLen characters, the two examples, and strings
\* whose last character sits just inside or just outside a window
CheckInputs ==
    UNION {[1..k -> CheckChars] : k \in 0..MaxLen}
    \cup {Example20, ExampleBad}
    \cup {Pad(n) \o <<c>> :
            n \in {w + WindowExtra - 1 : w \in CheckScans}
                  \cup {w + WindowExtra : w \in CheckScans},
            c \in CheckChars}

InitCheck ==
    /\ pc = "check_seq"
    /\ s_in \in CheckInputs
    /\ s_scan \in CheckScans
    /\ s_oc = AllOk
    /\ s_res = <<>>
    /\ max_scan = 0
    /\ PipeIdle
    /\ FileReset

check_seq_call ==
    /\ pc = "check_seq"
    /\ s_res' = <<check_seq(s_in, s_scan)>>
    /\ pc' = "check_seq_returned"
    /\ UNCHANGED <<s_in, s_scan, s_oc>>
    /\ UNCHANGED pipeVars

NextCheck == check_seq_call

SpecCheck == InitCheck /\ [][NextCheck]_vars

-----------------------------------------------------------------------------
(* fasta_reader on its own *)

ParseScans == {MinScan, DefaultMaxScan, DefaultMaxScan + 1}

ParseSeqs ==
    {<<>>,
     <<"A", "C">>,
     <<"A", "C", "U">>,
     <<"a", "c", "u">>,
     <<"U">>,
     <<"A", "X">>,
     <<"A", "\n", "C">>,
     Pad(MinScan + WindowExtra - 1) \o <<"X">>,
     Pad(MinScan + WindowExtra) \o <<"X">>,
     Pad(DefaultMaxScan + WindowExtra) \o <<"X">>}

ParseFiles == Files(WithSeq(ParseSeqs) \cup {NoSeq}, MaxParseRecs)

InitParse ==
    /\ pc = "fasta_reader"
    /\ max_scan \in ParseScans
    /\ raw \in ParseFiles
    /\ df = <<>> /\ printed = <<>> /\ work = <<>> /\ finished = <<>>
    /\ Analysis_ = <<>> /\ calls = <<>> /\ out = <<>>
    /\ PipeIdle
    /\ HarnessIdle

fasta_reader_call ==
    /\ pc = "fasta_reader"
    /\ LET r == fasta_reader(raw, max_scan)
       IN  /\ df' = r.df
           /\ printed' = r.printed
           /\ pc' = IF r.raised THEN "fasta_reader_raised"
                                ELSE "fasta_reader_returned"
           /\ err' = IF r.raised
                     THEN [at |-> "fasta_reader", exc |-> "ArgumentTypeError"]
                     ELSE err
    /\ UNCHANGED <<argv, max_scan, ncores, pool, nfiles, fidx, fstat, raw,
                   work, finished, Analysis_, calls, out>>
    /\ UNCHANGED harnessVars

NextParse == fasta_reader_call

SpecParse == InitParse /\ [][NextParse]_vars

-----------------------------------------------------------------------------
(* razor_predict on its own *)

StageOutcome == {"ok", "TypeError", "ValueError"}

Outcomes ==
    [predict : StageOutcome, fungi : StageOutcome, toxin : StageOutcome,
     cleav : {<<>>, <<1>>}]

PredictSeqs == {<<"A">>, <<"C", "U">>}

InitPredict ==
    /\ pc = "razor_predict"
    /\ s_in \in PredictSeqs
    /\ s_scan \in CheckScans
    /\ s_oc \in Outcomes
    /\ s_res = <<>>
    /\ max_scan = 0
    /\ PipeIdle
    /\ FileReset

razor_predict_call ==
    /\ pc = "razor_predict"
    /\ s_res' = <<razor_predict(s_in, s_scan, s_oc)>>
    /\ pc' = "razor_predict_left"
    /\ UNCHANGED <<s_in, s_scan, s_oc>>
    /\ UNCHANGED pipeVars

NextPredict == razor_predict_call

SpecPredict == InitPredict /\ [][NextPredict]_vars

-----------------------------------------------------------------------------
(* Properties *)

\* main has just written the table of file fidx - 1
Written ==
    /\ pc \in {"loop", "exit"}
    /\ fidx > 1
    /\ fstat[fidx - 1] = "written"

\* the raw positions fasta_reader kept
Kept == {df[j].index : j \in 1..Len(df)}

\* C1: once main has written a file, the output rows are the surviving
\* records in the order fasta_reader returned them (which is their order in
\* the file), and row i carries the bundle razor_predict computed for record
\* i, on the sequential and on the worker-pool path and whatever order the
\* workers completed in.
C1_OrderPreserved ==
    Written =>
        /\ Len(out) = Len(df)
        /\ \A i \in 1..Len(df) :
            /\ out[i].index = df[i].index
            /\ out[i].Accession = df[i].Accession
            /\ out[i].Sequence = df[i].Sequence
            /\ out[i].fields # NaN
            /\ out[i].fields = Lookup(Concat(work), df[i].index)
            /\ out[i].fields[1].seq = df[i].Sequence
        /\ \A i, j \in 1..Len(out) : i < j => out[i].index < out[j].index

\* a file with a dropped record was annotated by the pool and written after
\* a later chunk had completed before the first one
C1_Witness ==
    /\ Written
    /\ ncores > 1
    /\ Len(df) >= 2
    /\ Len(raw) > Len(df)
    /\ finished[1] # 1

\* main has ended for the current file under a valid worker count: the
\* table was written, or an exception left main after parsing
MainEnded ==
    \/ Written
    \/ (pc = "crashed" /\ err.at # "fasta_reader" /\ ncores >= 1)

\* C2: razor_predict is never invoked for a record fasta_reader dropped and
\* never twice for a record, each invocation gets the record's stored
\* sequence and the run's max_scan, and in every run of main every surviving
\* record is invoked exactly once; the rows written are one per surviving
\* record and none for a dropped record.
C2_ExactlyOnce ==
    /\ \A i \in 1..Len(calls) :
        /\ Len(calls[i]) <= 1
        /\ i \notin Kept => calls[i] = <<>>
        /\ "X" \in {raw[i].Sequence[k] : k \in 1..Len(raw[i].Sequence)}
              => calls[i] = <<>>
        /\ Len(calls[i]) = 1 =>
              \E j \in 1..Len(df) :
                  /\ df[j].index = i
                  /\ calls[i][1] = <<df[j].Sequence, max_scan>>
    /\ MainEnded => \A i \in Kept : Len(calls[i]) = 1
    /\ Written =>
        /\ Len(out) = Len(df)
        /\ \A j \in 1..Len(out) : out[j].index = df[j].index
        /\ \A i \in 1..Len(raw) :
              Cardinality({j \in 1..Len(out) : out[j].index = i})
                  = IF i \in Kept THEN 1 ELSE 0

\* C3: an exception raised by one classifier invocation does not end the run
C3_ClassifierFailureIsolated ==
    ~(pc = "crashed" /\ err.at = "razor_predict")

\* C4: when fasta_reader raises on one file of a run with a valid worker
\* count, the run still ends with every other file written
C4_FileIsolation ==
    (pc = "crashed" /\ err.at = "fasta_reader" /\ ncores >= 1) =>
        \A f \in 1..nfiles : f # fidx => fstat[f] = "written"

\* C9: the pool is initialised, a file is read or the classifier is called
\* only under a valid configuration
C9_RejectedBeforeIO ==
    (\/ pool.init
     \/ raw # <<>>
     \/ \E f \in 1..Len(fstat) : fstat[f] # "pending"
     \/ \E i \in 1..Len(calls) : calls[i] # <<>>)
        => (max_scan >= MinScan /\ ncores >= 1)

-----------------------------------------------------------------------------
(* Properties of fasta_reader *)

ParseReturned == pc = "fasta_reader_returned"

\* the raw positions fasta_reader removed
Dropped == (1..Len(raw)) \ Kept

\* C5: when fasta_reader returns, the rows kept and the records removed add
\* up to the records read; the count printed is the number removed, it is
\* printed at most once, and it is printed whenever a record was removed.
C5_AttritionReported ==
    ParseReturned =>
        /\ Len(df) + Cardinality(Dropped) = Len(raw)
        /\ Cardinality(Kept) = Len(df)
        /\ Len(printed) <= 1
        /\ Dropped # {} => printed = <<Len(raw) - Len(df)>>
        /\ Dropped = {} => printed = <<>>
        /\ \A k \in 1..Len(printed) : printed[k] = Cardinality(Dropped)

\* a file of which one record was removed and one kept
C5_Witness ==
    /\ ParseReturned
    /\ Len(df) >= 1
    /\ Cardinality(Dropped) >= 1
    /\ printed = <<Cardinality(Dropped)>>

\* the raw sequence of the record a row came from holds no U
NoU(row) ==
    \A k \in 1..Len(raw[row.index].Sequence) :
        Upper(raw[row.index].Sequence[k]) # "U"

\* C6: no stored sequence of a surviving record holds a character outside
\* the alphabet at a position below max_scan + 15.  Records whose raw
\* sequence holds U are left aside: what is stored for them is C7's subject.
C6_ValidatedWindowIsStoredWindow ==
    ParseReturned =>
        \A j \in 1..Len(df) :
            NoU(df[j]) =>
                \A k \in 1..Min(Len(df[j].Sequence), max_scan + WindowExtra) :
                    df[j].Sequence[k] \in valid_aa

\* C7: the stored sequence of a surviving record is the raw sequence
\* uppercased with every U rewritten to C (then truncated), and holds no U
C7_UToCNormalised ==
    ParseReturned =>
        \A j \in 1..Len(df) :
            /\ df[j].Sequence =
                  Take(ReplaceU(UpperSeq(RemoveNL(raw[df[j].index].Sequence))),
                       max_scan + WindowExtra)
            /\ \A k \in 1..Len(df[j].Sequence) : df[j].Sequence[k] # "U"

-----------------------------------------------------------------------------
(* Properties of check_seq *)

CheckReturned == pc = "check_seq_returned"

\* C8 as stated: check_seq answers whether every character of its argument,
\* untransformed, is in the alphabet
C8_NoTransformation ==
    CheckReturned =>
        s_res[1] = (\A i \in 1..Len(s_in) : s_in[i] \in valid_aa)

\* C8 amended: check_seq answers whether every character among the first
\* max_scan + 15, once uppercased, is in the alphabet or is U, a line break
\* in the last inspected position being let through.
C8_TransformedPrefix ==
    CheckReturned =>
        LET n == Min(Len(s_in), s_scan + WindowExtra)
        IN  s_res[1] =
                (\A i \in 1..n :
                    \/ Upper(s_in[i]) \in valid_aa \cup {"U"}
                    \/ (i = n /\ s_in[i] = "\n"))

\* check_seq accepted a string that holds a character outside the alphabet
C8_Witness ==
    /\ CheckReturned
    /\ s_res[1] = TRUE
    /\ \E i \in 1..Len(s_in) : s_in[i] \notin valid_aa

-----------------------------------------------------------------------------
(* Properties of razor_predict *)

PredictLeft == pc = "razor_predict_left"

\* C10: predict is the first stage entered; a TypeError of fungi is
\* swallowed, toxin is then not entered and a 12-tuple is returned; a
\* TypeError of toxin is swallowed after fungi returned and a 12-tuple is
\* returned; any other exception of fungi or toxin, and any exception of
\* predict, leaves razor_predict.
C10_StagePolicy ==
    PredictLeft =>
        LET r == s_res[1]
            entered(st) == \E k \in 1..Len(r.stages) : r.stages[k] = st
        IN  /\ Len(r.stages) >= 1 /\ r.stages[1] = "predict"
            /\ s_oc.predict # "ok" =>
                  r.exc = s_oc.predict /\ r.stages = <<"predict">>
            /\ (s_oc.predict = "ok" /\ s_oc.fungi = "TypeError") =>
                  /\ r.exc = "none"
                  /\ ~entered("toxin")
                  /\ Len(r.bundle) = NFields
            /\ (s_oc.predict = "ok" /\ s_oc.fungi = "ok"
                    /\ s_oc.toxin = "TypeError") =>
                  /\ r.exc = "none"
                  /\ r.stages = <<"predict", "fungi", "toxin">>
                  /\ Len(r.bundle) = NFields
            /\ (s_oc.predict = "ok" /\ s_oc.fungi \notin {"ok", "TypeError"})
                  => r.exc = s_oc.fungi
            /\ (s_oc.predict = "ok" /\ s_oc.fungi = "ok"
                    /\ s_oc.toxin \notin {"ok", "TypeError"})
                  => r.exc = s_oc.toxin
            /\ (s_oc.predict = "ok" /\ s_oc.fungi = "ok"
                    /\ s_oc.toxin = "ok") =>
                  r.exc = "none" /\ Len(r.bundle) = NFields

\* fungi raised TypeError and razor_predict returned without entering toxin
C10_Witness ==
    /\ PredictLeft
    /\ s_oc.predict = "ok"
    /\ s_oc.fungi = "TypeError"
    /\ s_res[1].exc = "none"
    /\ s_res[1].stages = <<"predict", "fungi">>

====
